---- MODULE Spec2Model ----
(***************************************************************************)
(* The test scripts of the pulse generator.                                *)
(*                                                                         *)
(* stress_test_uart.py: test_sequence drives `iters` rounds of `burst`     *)
(* commands over a serial transport, reads one reply per command,          *)
(* classifies it and tracks the expected start/stop state of the device;   *)
(* test_startstop_sequences runs eight scripted cases; read_until_prompt   *)
(* collects a reply until the prompt or a deadline; main strings them      *)
(* together.  stress_test.py: StressTest.send_command writes one command   *)
(* over BLE.                                                               *)
(*                                                                         *)
(* Commands are strings.  A reply is a sequence of one-character strings,  *)
(* so that substring search, upper(), lower() and strip() are computed.    *)
(***************************************************************************)
EXTENDS Integers, Sequences, FiniteSets, TLC

VARIABLES
    iters,            \* argument iters of test_sequence
    burst,            \* argument burst
    malformed_pct,    \* argument malformed_pct, in units of 1/PctScale
    focus_startstop,  \* argument focus_startstop
    rapid_toggle,     \* argument rapid_toggle
    device,           \* the reply texts the attached device can produce
    pc,               \* position in test_sequence
    i,                \* index of the current round
    b,                \* index within the current burst
    base_cmd,         \* the round's base command
    is_malformed,     \* the round's malformed decision
    cmd,              \* the command being sent
    resp,             \* the reply read for it
    stats,            \* the stats dict
    system_running,   \* the tracked start/stop state
    nwrite,           \* ser.write calls that returned
    nread             \* read_until_prompt calls that returned

VARIABLES
    rd_pc,            \* position in read_until_prompt
    rd_timeout,       \* argument timeout, in clock ticks
    rd_now,           \* time.time(), in clock ticks
    rd_end,           \* local end: the deadline
    rd_resp,          \* local resp: the decoded chunks
    rd_reads,         \* ser.read calls started
    rd_ret,           \* the returned text
    rd_waiting,       \* the bytes received by the port and not read yet
    rd_line,          \* the bursts of bytes the device has still to emit
    dev_log           \* per command read for: the device's reply, and whether
                      \* all of the line had arrived, and had been read, when
                      \* read_until_prompt returned

VARIABLES
    sq_pc,            \* position in test_startstop_sequences
    sq_case,          \* the scripted case being run
    sq_k,             \* commands of the case sent so far
    results,          \* the responses the case holds on to
    rapid_ok,         \* rapid_ok of the rapid toggle case
    tests_passed,     \* tests_passed
    tests_total       \* tests_total

VARIABLES
    m_pc,             \* position in main
    sequence_tests,   \* args.sequence_tests
    full_test         \* args.full_test

VARIABLES
    ble_pc,           \* position in StressTest.run_all_tests
    ble_test,         \* the test method being run
    ble_k,            \* commands of that test whose write has ended
    ble_write,        \* how the latest write_gatt_char that ended, ended
    ble_elapsed,      \* time.time() - start_time of test_sustained_load, in ticks
    command_count,    \* self.command_count
    error_count       \* self.error_count

config == <<iters, burst, malformed_pct, focus_startstop, rapid_toggle, device>>

\* what only test_sequence reads and writes
stress_vars == <<config, pc, i, b, base_cmd, is_malformed, stats, system_running>>

\* what send_command reads and writes
wire_vars == <<cmd, resp, nwrite, nread>>

rd_vars ==
    <<rd_pc, rd_timeout, rd_now, rd_end, rd_resp, rd_reads, rd_ret, rd_waiting,
      rd_line, dev_log>>

sq_vars == <<sq_pc, sq_case, sq_k, results, rapid_ok, tests_passed, tests_total>>

m_vars == <<m_pc, sequence_tests, full_test>>

ble_vars == <<ble_pc, ble_test, ble_k, ble_write, ble_elapsed, command_count, error_count>>

vars == <<stress_vars, wire_vars, rd_vars, sq_vars, m_vars, ble_vars>>

\* what test_sequence leaves alone
not_stress == <<rd_vars, sq_vars, m_vars, ble_vars>>

(***************************************************************************)
(* Bounds of the model.                                                    *)
(***************************************************************************)
\* commands per session (iters * burst), except in pure rapid toggling
MaxCmds == 2
\* rounds per session whose command is drawn from the pool (no rapid toggling)
MaxRounds == 1
\* commands per session (iters * burst) of rapid toggling without malformed rounds
MaxToggles == 4
\* malformed_pct and random.random() are counted in units of 1/PctScale
PctScale == 2

(***************************************************************************)
(* Program constants.                                                      *)
(***************************************************************************)
PROMPT == ">"
CMD_START == "SON"
CMD_STOP == "SOFF"
MIN_FREQ == 1
MAX_FREQ == 59
MIN_WIDTH == 1
MAX_WIDTH == 10
MIN_AMP == 1
MAX_AMP == 30

CMD_SET_FREQ(freq) == "SF;" \o ToString(freq)
CMD_SET_WIDTH(width) == "SW;" \o ToString(width)
CMD_SET_AMP(amp) == "SA;" \o ToString(amp)

malformed_examples ==
    <<"XXX", "SF;;", "SW;abc", "SA;-1", "SF;999999", "", "SW", "SA;",
      "SONN", "SOOF", "SON;1", "SOFF;0", "son", "soff">>

\* CMD_WEIGHTS expanded in insertion order: SF, SW, SA once, SON, SOFF thrice
weighted_pool == <<"SF", "SW", "SA", "SON", "SON", "SON", "SOFF", "SOFF", "SOFF">>

focus_pool ==
    <<"SON", "SON", "SON", "SON", "SON", "SOFF", "SOFF", "SOFF", "SOFF", "SOFF",
      "SF", "SW", "SA">>

toggle_pool == <<"SON", "SOFF">>

cmd_pool(focus, rapid) ==
    IF focus THEN focus_pool
    ELSE IF rapid THEN toggle_pool
    ELSE weighted_pool

(***************************************************************************)
(* Text: str.upper, str.lower, `in`, str.strip.                            *)
(***************************************************************************)
LowerLetters ==
    <<"a", "b", "c", "d", "e", "f", "g", "h", "i", "j", "k", "l", "m",
      "n", "o", "p", "q", "r", "s", "t", "u", "v", "w", "x", "y", "z">>

UpperLetters ==
    <<"A", "B", "C", "D", "E", "F", "G", "H", "I", "J", "K", "L", "M",
      "N", "O", "P", "Q", "R", "S", "T", "U", "V", "W", "X", "Y", "Z">>

\* the ASCII characters str.strip() removes: blank, \t, \n, \r, \f, the
\* vertical tab \x0b and the separators \x1c to \x1f (the last five are
\* written as the characters themselves); replies are decoded bytes of a
\* device that answers in ASCII, so the non-ASCII spaces do not occur
Whitespace ==
    {" ", "\t", "\n", "\r", "\f", "", "", "", "", ""}

upper_char(c) ==
    IF \E k \in 1..Len(LowerLetters) : LowerLetters[k] = c
    THEN UpperLetters[CHOOSE k \in 1..Len(LowerLetters) : LowerLetters[k] = c]
    ELSE c

lower_char(c) ==
    IF \E k \in 1..Len(UpperLetters) : UpperLetters[k] = c
    THEN LowerLetters[CHOOSE k \in 1..Len(UpperLetters) : UpperLetters[k] = c]
    ELSE c

str_upper(s) == [k \in 1..Len(s) |-> upper_char(s[k])]

str_lower(s) == [k \in 1..Len(s) |-> lower_char(s[k])]

\* needle in s
str_in(needle, s) ==
    \E text \in {s} :
        \E k \in 0..(Len(text) - Len(needle)) :
            SubSeq(text, k + 1, k + Len(needle)) = needle

RECURSIVE str_lstrip(_)
str_lstrip(s) ==
    IF s = <<>> THEN s
    ELSE IF Head(s) \in Whitespace THEN str_lstrip(Tail(s))
    ELSE s

RECURSIVE str_rstrip(_)
str_rstrip(s) ==
    IF s = <<>> THEN s
    ELSE IF s[Len(s)] \in Whitespace THEN str_rstrip(SubSeq(s, 1, Len(s) - 1))
    ELSE s

\* strip that removes nothing
str_strip_nothing(s) == s


str_strip(s) == str_rstrip(str_lstrip(s))

T_OK == <<"O", "K">>
T_STARTED == <<"S", "T", "A", "R", "T", "E", "D">>
T_STOPPED == <<"S", "T", "O", "P", "P", "E", "D">>
T_ALREADY == <<"A", "L", "R", "E", "A", "D", "Y">>
T_ERROR == <<"E", "R", "R", "O", "R">>
T_UNKNOWN == <<"U", "N", "K", "N", "O", "W", "N">>

(***************************************************************************)
(* Reply texts returned by read_until_prompt.                               *)
(***************************************************************************)
\* '': nothing arrived before the deadline
R_EMPTY == <<>>

\* 'OK\r\n>'
R_OK == <<"O", "K", "\r", "\n", ">">>

\* 'Already running\r\n>'
R_ALREADY == <<"A", "l", "r", "e", "a", "d", "y", " ", "r", "u", "n", "n", "i", "n", "g", "\r", "\n", ">">>

\* 'ERROR\r\n>'
R_ERROR == <<"E", "R", "R", "O", "R", "\r", "\n", ">">>

\* '>': the prompt alone
R_PROMPT == <<">">>

\* ' ': whitespace only
R_SPACE == <<" ">>

\* '\r\n': whitespace only
R_CRLF == <<"\r", "\n">>

\* 'ok>'
R_OK_LOWER == <<"o", "k", ">">>

\* 'Started>'
R_STARTED == <<"S", "t", "a", "r", "t", "e", "d", ">">>

\* 'stopped'
R_STOPPED == <<"s", "t", "o", "p", "p", "e", "d">>

\* 'already'
R_ALREADY_LOWER == <<"a", "l", "r", "e", "a", "d", "y">>

\* 'Error 2>'
R_ERROR_MIXED == <<"E", "r", "r", "o", "r", " ", "2", ">">>

\* 'Unknown command>'
R_UNKNOWN_CMD == <<"U", "n", "k", "n", "o", "w", "n", " ", "c", "o", "m", "m", "a", "n", "d", ">">>

\* 'unknown'
R_UNKNOWN_LOWER == <<"u", "n", "k", "n", "o", "w", "n">>

\* 'UNKNOWN'
R_UNKNOWN_UPPER == <<"U", "N", "K", "N", "O", "W", "N">>

\* a form feed: whitespace other than blank, tab and line ends
R_FORMFEED == <<"\f">>

\* a vertical tab and the four separators: whitespace that only str.strip knows
R_SEPARATORS == <<"", "", "", "", "">>

\* 'busy>': text with no known phrase
R_BUSY == <<"b", "u", "s", "y", ">">>

CoreReplies == {R_EMPTY, R_OK, R_ALREADY, R_ERROR}

AllReplies ==
    {R_EMPTY, R_OK, R_ALREADY, R_ERROR,
     R_PROMPT, R_SPACE, R_CRLF, R_OK_LOWER,
     R_STARTED, R_STOPPED, R_ALREADY_LOWER, R_ERROR_MIXED,
     R_UNKNOWN_CMD, R_UNKNOWN_LOWER, R_UNKNOWN_UPPER, R_BUSY, R_FORMFEED,
     R_SEPARATORS}

\* the texts a device of the given kind can answer with
Replies(kind) == IF kind = "verbose" THEN AllReplies ELSE CoreReplies

(***************************************************************************)
(* Response analysis of test_sequence.                                     *)
(***************************************************************************)
is_ok(resp_upper) ==
    \/ str_in(T_OK, resp_upper)
    \/ str_in(T_STARTED, resp_upper)
    \/ str_in(T_STOPPED, resp_upper)

\* is_already with the needle looked up in the lower-cased text
is_already_lowered(resp_upper) == str_in(T_ALREADY, str_lower(resp_upper))


is_already(resp_upper) == str_in(T_ALREADY, resp_upper)

\* 'ERROR' in resp_upper or 'UNKNOWN' in resp_upper.lower()
is_error(resp_upper) ==
    \/ str_in(T_ERROR, resp_upper)
    \/ str_in(T_UNKNOWN, str_lower(resp_upper))

Bump(st, key) == [st EXCEPT ![key] = @ + 1]

\* count_response whose last branch leaves an unclassified reply uncounted
count_response_skips_unclassified(st, c, r) ==
    LET resp_upper == str_upper(r)
    IN  IF c = "SON"
        THEN IF is_ok(resp_upper) \/ is_already(resp_upper)
             THEN Bump(Bump(st, "start_ok"), "ok")
             ELSE Bump(Bump(st, "start_err"), "error")
        ELSE IF c = "SOFF"
        THEN IF is_ok(resp_upper) \/ is_already(resp_upper)
             THEN Bump(Bump(st, "stop_ok"), "ok")
             ELSE Bump(Bump(st, "stop_err"), "error")
        ELSE IF is_ok(resp_upper) THEN Bump(st, "ok")
        ELSE IF is_error(resp_upper) THEN Bump(st, "error")
        ELSE IF str_strip(r) = <<>> THEN Bump(st, "error")
        ELSE st

\* the counters after the if/elif chain that follows the append
count_response(st, c, r) ==
    LET resp_upper == str_upper(r)
    IN  IF c = "SON"
        THEN IF is_ok(resp_upper) \/ is_already(resp_upper)
             THEN Bump(Bump(st, "start_ok"), "ok")
             ELSE Bump(Bump(st, "start_err"), "error")
        ELSE IF c = "SOFF"
        THEN IF is_ok(resp_upper) \/ is_already(resp_upper)
             THEN Bump(Bump(st, "stop_ok"), "ok")
             ELSE Bump(Bump(st, "stop_err"), "error")
        ELSE IF is_ok(resp_upper) THEN Bump(st, "ok")
        ELSE IF is_error(resp_upper) THEN Bump(st, "error")
        ELSE IF str_strip(r) = <<>> THEN Bump(st, "error")
        ELSE Bump(st, "ok")

\* track_running that takes a failed SOFF to mean the system still runs
track_running_failed_stop(running, c, r) ==
    LET resp_upper == str_upper(r)
    IN  IF c = "SON" /\ (is_ok(resp_upper) \/ is_already(resp_upper)) THEN TRUE
        ELSE IF c = "SOFF"
        THEN ~(is_ok(resp_upper) \/ is_already(resp_upper))
        ELSE running

\* track_running that takes only an Ok reply, not an Already reply, as success
track_running_ok_only(running, c, r) ==
    LET resp_upper == str_upper(r)
    IN  IF c = "SON" /\ is_ok(resp_upper) THEN TRUE
        ELSE IF c = "SOFF" /\ is_ok(resp_upper) THEN FALSE
        ELSE running

\* track_running that compares the command without regard to letter case
track_running_any_case(running, c, r) ==
    LET resp_upper == str_upper(r)
    IN  IF c \in {"SON", "son"} /\ (is_ok(resp_upper) \/ is_already(resp_upper))
        THEN TRUE
        ELSE IF c \in {"SOFF", "soff"} /\ (is_ok(resp_upper) \/ is_already(resp_upper))
        THEN FALSE
        ELSE running

\* system_running after the same chain
track_running(running, c, r) ==
    LET resp_upper == str_upper(r)
    IN  IF c = "SON" /\ (is_ok(resp_upper) \/ is_already(resp_upper)) THEN TRUE
        ELSE IF c = "SOFF" /\ (is_ok(resp_upper) \/ is_already(resp_upper)) THEN FALSE
        ELSE running

(***************************************************************************)
(* Command generation of test_sequence.                                    *)
(***************************************************************************)
\* the values random.randint(lo, hi) can return
randint(lo, hi) == lo..hi

\* the values random.choice(pool) can return
choice(pool) == {pool[k] : k \in 1..Len(pool)}

\* typ of a round when rapid toggling draws from its pool like the other modes
round_types_drawn(focus, rapid, running) == choice(cmd_pool(focus, rapid))

\* typ of a round when rapid toggling repeats the tracked state instead of leaving it
round_types_repeating(focus, rapid, running) ==
    IF rapid
    THEN {IF running THEN "SON" ELSE "SOFF"}
    ELSE choice(cmd_pool(focus, rapid))

\* typ of a round
round_types(focus, rapid, running) ==
    IF rapid
    THEN {IF running THEN "SOFF" ELSE "SON"}
    ELSE choice(cmd_pool(focus, rapid))

\* base_cmd with parameter values drawn from one below the lowest legal one
base_cmds_from_zero(typ) ==
    IF typ = "SF" THEN {CMD_SET_FREQ(n) : n \in randint(MIN_FREQ - 1, MAX_FREQ)}
    ELSE IF typ = "SW" THEN {CMD_SET_WIDTH(n) : n \in randint(MIN_WIDTH - 1, MAX_WIDTH)}
    ELSE IF typ = "SA" THEN {CMD_SET_AMP(n) : n \in randint(MIN_AMP - 1, MAX_AMP)}
    ELSE IF typ = "SON" THEN {CMD_START}
    ELSE IF typ = "SOFF" THEN {CMD_STOP}
    ELSE {typ}

\* base_cmd for a typ
base_cmds(typ) ==
    IF typ = "SF" THEN {CMD_SET_FREQ(n) : n \in randint(MIN_FREQ, MAX_FREQ)}
    ELSE IF typ = "SW" THEN {CMD_SET_WIDTH(n) : n \in randint(MIN_WIDTH, MAX_WIDTH)}
    ELSE IF typ = "SA" THEN {CMD_SET_AMP(n) : n \in randint(MIN_AMP, MAX_AMP)}
    ELSE IF typ = "SON" THEN {CMD_START}
    ELSE IF typ = "SOFF" THEN {CMD_STOP}
    ELSE {typ}

\* random.random() < malformed_pct, both in units of 1/PctScale
malformed_draws(pct) == {r < pct : r \in 0..(PctScale - 1)}

\* cmd of one burst element when a malformed round may still send the base command
burst_cmds_mixed(malformed, base) ==
    IF malformed THEN choice(malformed_examples) \cup {base} ELSE {base}

\* cmd of one burst element
burst_cmds(malformed, base) ==
    IF malformed THEN choice(malformed_examples) ELSE {base}

(***************************************************************************)
(* The state machine.                                                      *)
(***************************************************************************)
Unset == "<unset>"

\* a round loop that stops one round short
round_stops_short(done_rounds, n) == done_rounds + 1 < n

\* for i in range(iters): round i runs
round_continues(done_rounds, n) == done_rounds < n

\* for b in range(burst): element b runs
burst_continues(done_elements, n) == done_elements < n

\* the tracker starting from a stopped system
initial_system_stopped == FALSE


initial_system_running == TRUE

initial_stats ==
    [sent |-> 0, ok |-> 0, error |-> 0, responses |-> <<>>,
     start_ok |-> 0, stop_ok |-> 0, start_err |-> 0, stop_err |-> 0]

\* the sessions explored:
\*   - one command to a verbose device, in any mode, or
\*   - up to MaxRounds drawn rounds, of up to MaxCmds commands in all, to a
\*     terse device without malformed rounds, or
\*   - up to MaxCmds commands to a terse device in rapid-toggle mode, or
\*   - up to MaxToggles commands of rapid toggling without malformed rounds
Sessions ==
    {s \in [iters : 0..(MaxCmds + MaxToggles),
            burst : 0..(MaxCmds + MaxToggles),
            malformed_pct : 0..PctScale,
            focus_startstop : BOOLEAN,
            rapid_toggle : BOOLEAN,
            device : {"terse", "verbose"}] :
        \/ s.device = "verbose" /\ s.iters = 1 /\ s.burst = 1
        \/ s.device = "terse" /\ s.malformed_pct = 0 /\ ~s.rapid_toggle
              /\ s.iters * s.burst <= MaxCmds
              /\ s.iters <= MaxRounds /\ s.burst <= MaxCmds
        \/ s.device = "terse" /\ s.rapid_toggle
              /\ s.iters * s.burst <= MaxCmds
              /\ s.iters <= MaxCmds /\ s.burst <= MaxCmds
        \/ s.device = "terse" /\ s.rapid_toggle /\ s.malformed_pct = 0
              /\ s.iters * s.burst <= MaxToggles
              /\ s.iters <= MaxToggles /\ s.burst <= MaxToggles}

\* read_until_prompt is not running
RdIdle ==
    /\ rd_pc = "idle"
    /\ rd_timeout = 0
    /\ rd_now = 0
    /\ rd_end = 0
    /\ rd_resp = <<>>
    /\ rd_reads = 0
    /\ rd_ret = <<>>
    /\ rd_waiting = <<>>
    /\ rd_line = <<>>
    /\ dev_log = <<>>

\* test_startstop_sequences is not running
SeqIdle ==
    /\ sq_pc = "idle"
    /\ sq_case = 0
    /\ sq_k = 0
    /\ results = <<>>
    /\ rapid_ok = TRUE
    /\ tests_passed = 0
    /\ tests_total = 0

\* main is not running
MainIdle ==
    /\ m_pc = "idle"
    /\ sequence_tests = FALSE
    /\ full_test = FALSE

\* StressTest.run_all_tests is not running
BleIdle ==
    /\ ble_pc = "idle"
    /\ ble_test = 0
    /\ ble_k = 0
    /\ ble_write = "none"
    /\ ble_elapsed = 0
    /\ command_count = 0
    /\ error_count = 0

\* nothing has been written to the port or read from it
WireIdle ==
    /\ cmd = Unset
    /\ resp = <<>>
    /\ nwrite = 0
    /\ nread = 0

\* test_sequence is not running
StressIdle ==
    /\ iters = 0
    /\ burst = 0
    /\ malformed_pct = 0
    /\ focus_startstop = FALSE
    /\ rapid_toggle = FALSE
    /\ device = "terse"
    /\ pc = "idle"
    /\ i = 0
    /\ b = 0
    /\ base_cmd = Unset
    /\ is_malformed = FALSE
    /\ stats = initial_stats
    /\ system_running = initial_system_running

Init ==
    /\ RdIdle
    /\ SeqIdle
    /\ MainIdle
    /\ BleIdle
    /\ \E s \in Sessions :
          /\ iters = s.iters
          /\ burst = s.burst
          /\ malformed_pct = s.malformed_pct
          /\ focus_startstop = s.focus_startstop
          /\ rapid_toggle = s.rapid_toggle
          /\ device = s.device
    /\ pc = "round"
    /\ i = 0
    /\ b = 0
    /\ base_cmd = Unset
    /\ is_malformed = FALSE
    /\ cmd = Unset
    /\ resp = <<>>
    /\ stats = initial_stats
    /\ system_running = initial_system_running
    /\ nwrite = 0
    /\ nread = 0

\* for i in range(iters): choose typ, base_cmd and is_malformed
StartRound ==
    /\ pc = "round"
    /\ round_continues(i, iters)
    /\ \E typ \in round_types(focus_startstop, rapid_toggle, system_running) :
          \E bc \in base_cmds(typ) : base_cmd' = bc
    /\ \E m \in malformed_draws(malformed_pct) : is_malformed' = m
    /\ b' = 0
    /\ IF burst_continues(0, burst)
       THEN pc' = "send" /\ i' = i
       ELSE pc' = "round" /\ i' = i + 1
    /\ UNCHANGED <<config, cmd, resp, stats, system_running, nwrite, nread>>
    /\ UNCHANGED not_stress

\* the for loop is exhausted: return stats
Finish ==
    /\ pc = "round"
    /\ ~round_continues(i, iters)
    /\ pc' = "done"
    /\ UNCHANGED <<config, i, b, base_cmd, is_malformed, cmd, resp, stats,
                   system_running, nwrite, nread>>
    /\ UNCHANGED not_stress

\* one burst element up to the end of ser.write and ser.flush
Send ==
    /\ pc = "send"
    /\ \E c \in burst_cmds(is_malformed, base_cmd) : cmd' = c
    /\ stats' = Bump(stats, "sent")
    /\ nwrite' = nwrite + 1
    /\ pc' = "read"
    /\ UNCHANGED <<config, i, b, base_cmd, is_malformed, resp, system_running, nread>>
    /\ UNCHANGED not_stress

\* the same, when ser.write raises: the exception leaves test_sequence
SendFault ==
    /\ pc = "send"
    /\ \E c \in burst_cmds(is_malformed, base_cmd) : cmd' = c
    /\ stats' = Bump(stats, "sent")
    /\ pc' = "aborted"
    /\ UNCHANGED <<config, i, b, base_cmd, is_malformed, resp, system_running,
                   nwrite, nread>>
    /\ UNCHANGED not_stress

\* read_until_prompt returns what the device sent before the prompt or deadline
Read ==
    /\ pc = "read"
    /\ \E r \in Replies(device) : resp' = r
    /\ nread' = nread + 1
    /\ pc' = "analyze"
    /\ UNCHANGED <<config, i, b, base_cmd, is_malformed, cmd, stats,
                   system_running, nwrite>>
    /\ UNCHANGED not_stress

\* record the pair, analyze the response, go on with the burst or the next round
Analyze ==
    /\ pc = "analyze"
    /\ stats' = count_response(
                   [stats EXCEPT !.responses = Append(@, <<cmd, resp>>)], cmd, resp)
    /\ system_running' = track_running(system_running, cmd, resp)
    /\ IF burst_continues(b + 1, burst)
       THEN pc' = "send" /\ b' = b + 1 /\ i' = i
       ELSE pc' = "round" /\ b' = b + 1 /\ i' = i + 1
    /\ UNCHANGED <<config, base_cmd, is_malformed, cmd, resp, nwrite, nread>>
    /\ UNCHANGED not_stress

Next ==
    \/ StartRound
    \/ Finish
    \/ Send
    \/ SendFault
    \/ Read
    \/ Analyze

Spec == Init /\ [][Next]_vars

\* the run is scheduled until it returns or a transport fault ends it
FairSpec == Spec /\ WF_vars(Next)

TypeOK ==
    /\ pc \in {"idle", "round", "send", "read", "analyze", "done", "aborted",
              "interrupted"}
    /\ i \in 0..iters
    /\ b \in 0..burst
    /\ is_malformed \in BOOLEAN
    /\ system_running \in BOOLEAN
    /\ stats.sent \in Nat /\ stats.ok \in Nat /\ stats.error \in Nat
    /\ nwrite \in Nat /\ nread \in Nat

(***************************************************************************)
(* read_until_prompt.  Time is counted in ticks of the clock; one pass of  *)
(* the loop (a read, or a read and the sleep after an empty one) takes at  *)
(* least one tick and at most MaxTick.                                     *)
(***************************************************************************)
\* the timeouts explored, in ticks
MaxTimeout == 3
\* the longest pass of the loop, in ticks
MaxTick == 2

\* a byte that is not valid UTF-8
InvalidByte == "<ff>"

\* b'': nothing waiting on the port
B_NONE == <<>>

\* b'OK'
B_TEXT == <<"O", "K">>

\* b'\r\n>': the end of a reply
B_PROMPT_LINE == <<"\r", "\n", ">">>

\* b'\xff': line noise
B_NOISE == <<InvalidByte>>

\* the bursts of bytes a device puts on the line; a burst reaches the port whole
Chunks == {B_NONE, B_TEXT, B_PROMPT_LINE, B_NOISE}

\* the bursts a device emits during one call, at most
MaxBursts == 3

\* what a device emits during one call: up to n bursts, none of them empty
Lines(n) == UNION {[1..k -> Chunks \ {B_NONE}] : k \in 0..n}

\* the bytes of some bursts, end to end
RECURSIVE bytes_of(_)
bytes_of(bursts) ==
    IF bursts = <<>> THEN <<>> ELSE Head(bursts) \o bytes_of(Tail(bursts))

\* the first n elements of s, all of it when it is shorter
Take(s, n) == SubSeq(s, 1, IF n < Len(s) THEN n ELSE Len(s))

\* s without its first n elements
Drop(s, n) == SubSeq(s, n + 1, Len(s))

\* data.decode('utf-8', errors='ignore')
decode(data) == SelectSeq(data, LAMBDA c : c # InvalidByte)

\* a join that keeps the last chunk only
str_join_last(chunks) ==
    IF chunks = <<>> THEN <<>> ELSE chunks[Len(chunks)]

\* ''.join(chunks)
RECURSIVE str_join(_)
str_join(chunks) ==
    IF chunks = <<>> THEN <<>> ELSE Head(chunks) \o str_join(Tail(chunks))

\* a loop test that lets one more read start at the deadline itself
deadline_pending_at_end(now, end) == now <= end

\* while time.time() < end
deadline_pending(now, end) == now < end

\* ser.in_waiting or 1
read_size(in_waiting) == IF in_waiting # 0 THEN in_waiting ELSE 1

\* a prompt test that looks at the end of the chunk only
prompt_at_end(s) == s # <<>> /\ s[Len(s)] = PROMPT

\* PROMPT in s
prompt_in(s) == str_in(<<PROMPT>>, s)

\* read_until_prompt(ser, timeout) is called at time 0 or 1, on a port with
\* nothing waiting, of a device that has some line to emit
ReadInit ==
    /\ StressIdle
    /\ WireIdle
    /\ SeqIdle
    /\ MainIdle
    /\ BleIdle
    /\ rd_pc = "call"
    /\ rd_timeout \in 0..MaxTimeout
    /\ rd_now \in 0..1
    /\ rd_end = 0
    /\ rd_resp = <<>>
    /\ rd_reads = 0
    /\ rd_ret = <<>>
    /\ rd_waiting = <<>>
    /\ rd_line \in Lines(MaxBursts)
    /\ dev_log = <<>>

\* end = time.time() + timeout; resp = []
RdCall ==
    /\ rd_pc = "call"
    /\ rd_end' = rd_now + rd_timeout
    /\ rd_resp' = <<>>
    /\ rd_pc' = "loop"
    /\ UNCHANGED <<rd_timeout, rd_now, rd_reads, rd_ret, rd_waiting, rd_line,
                   dev_log>>
    /\ UNCHANGED <<stress_vars, wire_vars, sq_vars, m_vars, ble_vars>>

\* one pass of the loop: the test, ser.read, then sleep and continue, or
\* decode, append and the prompt test.  `early` bursts of the line reach the
\* port before ser.in_waiting is read, `late - early` more before ser.read
\* (which does not block: the port is opened with timeout=0) takes its bytes.
RdIterate ==
    /\ rd_pc = "loop"
    /\ deadline_pending(rd_now, rd_end)
    /\ rd_reads' = rd_reads + 1
    /\ \E tick \in 1..MaxTick : rd_now' = rd_now + tick
    /\ \E early \in 0..Len(rd_line) : \E late \in early..Len(rd_line) :
          LET in_waiting == Len(rd_waiting) + Len(bytes_of(Take(rd_line, early)))
              received == rd_waiting \o bytes_of(Take(rd_line, late))
              data == Take(received, read_size(in_waiting))
          IN  /\ rd_waiting' = Drop(received, Len(data))
              /\ rd_line' = Drop(rd_line, late)
              /\ IF data = <<>>
                 THEN /\ rd_resp' = rd_resp
                      /\ rd_pc' = "loop"
                 ELSE LET s == decode(data)
                      IN  /\ rd_resp' = Append(rd_resp, s)
                          /\ rd_pc' = IF prompt_in(s) THEN "break" ELSE "loop"
    /\ UNCHANGED <<rd_timeout, rd_end, rd_ret, dev_log>>
    /\ UNCHANGED <<stress_vars, wire_vars, sq_vars, m_vars, ble_vars>>

\* the loop has ended, by its test or by break: return ''.join(resp); what the
\* device emits meanwhile waits in the port
RdReturn ==
    /\ \/ rd_pc = "break"
       \/ rd_pc = "loop" /\ ~deadline_pending(rd_now, rd_end)
    /\ rd_ret' = str_join(rd_resp)
    /\ rd_pc' = "returned"
    /\ \E late \in 0..Len(rd_line) :
          /\ rd_waiting' = rd_waiting \o bytes_of(Take(rd_line, late))
          /\ rd_line' = Drop(rd_line, late)
    /\ UNCHANGED <<rd_timeout, rd_now, rd_end, rd_resp, rd_reads, dev_log>>
    /\ UNCHANGED <<stress_vars, wire_vars, sq_vars, m_vars, ble_vars>>

ReadNext ==
    \/ RdCall
    \/ RdIterate
    \/ RdReturn

ReadSpec == ReadInit /\ [][ReadNext]_vars

(***************************************************************************)
(* test_sequence with send_command in full: after the write the device     *)
(* queues its reply, read_until_prompt polls the port, and what it returns *)
(* is the response recorded with the command.  A reply may reach the port  *)
(* at any time, also after the read for its command has returned.          *)
(***************************************************************************)
\* the replies of a device that answers each command with one line ending in
\* the prompt
prompt_replies == {R_OK, R_ERROR}

\* the bursts a reply is emitted in: its text, then the line end and the prompt
reply_bursts(r) ==
    LET n == Len(r) - Len(B_PROMPT_LINE)
    IN  IF n > 0 THEN <<SubSeq(r, 1, n), SubSeq(r, n + 1, Len(r))>> ELSE <<r>>

\* the sessions explored with the port: rapid toggling of up to MaxCmds commands
PortSessions ==
    {s \in Sessions :
        /\ s.device = "terse"
        /\ s.rapid_toggle
        /\ ~s.focus_startstop
        /\ s.malformed_pct = 0
        /\ s.iters * s.burst <= MaxCmds}

\* test_sequence is called on a port with nothing waiting
PortInit ==
    /\ RdIdle
    /\ SeqIdle
    /\ MainIdle
    /\ BleIdle
    /\ WireIdle
    /\ \E s \in PortSessions :
          /\ iters = s.iters
          /\ burst = s.burst
          /\ malformed_pct = s.malformed_pct
          /\ focus_startstop = s.focus_startstop
          /\ rapid_toggle = s.rapid_toggle
          /\ device = s.device
    /\ pc = "round"
    /\ i = 0
    /\ b = 0
    /\ base_cmd = Unset
    /\ is_malformed = FALSE
    /\ stats = initial_stats
    /\ system_running = initial_system_running

\* send_command after the flush: the device has the command and queues its
\* reply; time.sleep(wait); read_until_prompt(ser, timeout=1.0) is called.
\* The clock is read from this call on; the timeout is MaxTimeout ticks.
SendCommandRead ==
    /\ pc = "read"
    /\ rd_pc = "idle"
    /\ \E r \in prompt_replies :
          /\ rd_line' = rd_line \o reply_bursts(r)
          /\ dev_log' = Append(dev_log, [cmd |-> cmd, reply |-> r, returned |-> FALSE,
                                         arrived |-> FALSE, taken |-> FALSE])
    /\ rd_pc' = "call"
    /\ rd_timeout' = MaxTimeout
    /\ rd_now' = 0
    /\ UNCHANGED <<rd_end, rd_resp, rd_reads, rd_ret, rd_waiting>>
    /\ UNCHANGED <<stress_vars, wire_vars, sq_vars, m_vars, ble_vars>>

\* resp = read_until_prompt(...); return resp
SendCommandReturn ==
    /\ pc = "read"
    /\ rd_pc = "returned"
    /\ resp' = rd_ret
    /\ nread' = nread + 1
    /\ pc' = "analyze"
    /\ dev_log' = [dev_log EXCEPT ![Len(dev_log)] =
                      [@ EXCEPT !.returned = TRUE,
                                !.arrived = (rd_line = <<>>),
                                !.taken = (rd_line = <<>> /\ rd_waiting = <<>>)]]
    /\ rd_pc' = "idle"
    /\ rd_timeout' = 0
    /\ rd_now' = 0
    /\ rd_end' = 0
    /\ rd_resp' = <<>>
    /\ rd_reads' = 0
    /\ rd_ret' = <<>>
    /\ UNCHANGED <<rd_waiting, rd_line>>
    /\ UNCHANGED <<config, i, b, base_cmd, is_malformed, cmd, stats,
                   system_running, nwrite>>
    /\ UNCHANGED <<sq_vars, m_vars, ble_vars>>

PortNext ==
    \/ StartRound
    \/ Finish
    \/ Send
    \/ SendFault
    \/ SendCommandRead
    \/ RdCall
    \/ RdIterate
    \/ RdReturn
    \/ SendCommandReturn
    \/ Analyze

PortSpec == PortInit /\ [][PortNext]_vars

(***************************************************************************)
(* test_startstop_sequences: eight scripted cases and a closing SON.       *)
(***************************************************************************)
\* for i in range(10)
RAPID_ITERATIONS == 10

\* for _ in range(5)
BURST_PAIRS == 5

\* the commands of n passes of a loop that sends SOFF, then SON
off_on_pairs(n) == [k \in 1..(2 * n) |-> IF k % 2 = 1 THEN CMD_STOP ELSE CMD_START]

\* expected patterns of the case that looks for STOPPED after the first SOFF
double_soff_expected_stopped == <<T_STOPPED, T_ALREADY>>

\* expected_responses of "Double SOFF"
double_soff_expected == <<T_OK, T_ALREADY>>

seq_cases ==
    <<[name |-> "Basic SOFF", kind |-> "run_test",
       commands |-> <<"SOFF">>, expected |-> <<T_STOPPED, T_ALREADY>>],
      [name |-> "Double SOFF", kind |-> "run_test",
       commands |-> <<"SOFF", "SOFF">>, expected |-> double_soff_expected],
      [name |-> "SON after SOFF", kind |-> "run_test",
       commands |-> <<"SOFF", "SON">>, expected |-> <<T_OK, T_STARTED>>],
      [name |-> "Double SON", kind |-> "run_test",
       commands |-> <<"SON", "SON">>, expected |-> <<T_OK, T_ALREADY>>],
      [name |-> "Toggle sequence", kind |-> "run_test",
       commands |-> <<"SOFF", "SON", "SOFF", "SON">>,
       expected |-> <<T_OK, T_OK, T_OK, T_OK>>],
      [name |-> "Rapid toggle (10x)", kind |-> "rapid",
       commands |-> off_on_pairs(RAPID_ITERATIONS), expected |-> <<>>],
      [name |-> "Parameter change while stopped", kind |-> "params",
       commands |-> <<"SOFF", "SF;5", "SW;3", "SA;10", "SON">>, expected |-> <<>>],
      [name |-> "Burst commands", kind |-> "burst",
       commands |-> off_on_pairs(BURST_PAIRS) \o <<"SOFF">>, expected |-> <<>>]>>

NCases == Len(seq_cases)

\* a runner that closes with SOFF
closing_cmd_stop == CMD_STOP

\* the command sent after the last case, to leave the system running
closing_cmd == CMD_START

\* the commands of case c; past the last case, the closing command
seq_commands(c) == IF c <= NCases THEN seq_cases[c].commands ELSE <<closing_cmd>>

seq_kind(c) == IF c <= NCases THEN seq_cases[c].kind ELSE "closing"

\* the reply texts the device gives during the scripted cases
SeqReplies == {R_EMPTY, R_OK, R_ALREADY, R_ERROR, R_STARTED, R_STOPPED, R_BUSY}

\* the responses a case holds on to once the k-th command has been answered:
\* run_test appends to results; the rapid toggle keeps resp_off and resp_on of
\* the current pass; the parameter case keeps resp_sf, resp_sw, resp_sa; the
\* burst case keeps the reply to its last SOFF
seq_keep(kind, held, k, c, r) ==
    CASE kind = "run_test" -> Append(held, <<c, r>>)
      [] kind = "rapid" -> IF k % 2 = 1 THEN <<<<c, r>>>> ELSE Append(held, <<c, r>>)
      [] kind = "params" -> IF k \in 2..4 THEN Append(held, <<c, r>>) ELSE held
      [] kind = "burst" -> IF k = 2 * BURST_PAIRS + 1 THEN <<<<c, r>>>> ELSE held
      [] OTHER -> held

\* 'ERROR' in resp_off.upper() or 'ERROR' in resp_on.upper()
rapid_failed(held) ==
    \E k \in 1..Len(held) : str_in(T_ERROR, str_upper(held[k][2]))

\* run_test that passes a case when some pair matches
run_test_passes_some(held, expected) ==
    \E k \in 1..Len(held) :
        k <= Len(expected) /\ str_in(expected[k], str_upper(held[k][2]))

\* all_ok of run_test: zip(results, expected_responses) stops at the shorter
run_test_passes(held, expected) ==
    \A k \in 1..Len(held) :
        k <= Len(expected) => str_in(expected[k], str_upper(held[k][2]))

\* the parameter case judged by the stress runner's permissive counting
params_pass_permissive(held) ==
    \A k \in 1..Len(held) : count_response(initial_stats, held[k][1], held[k][2]).ok = 1

\* all('OK' in r.upper() for r in [resp_sf, resp_sw, resp_sa])
params_pass(held) ==
    \A k \in 1..Len(held) : str_in(T_OK, str_upper(held[k][2]))

\* 'OK' in resp.upper() or 'ALREADY' in resp.upper()
burst_passes(held) ==
    \A k \in 1..Len(held) :
        str_in(T_OK, str_upper(held[k][2])) \/ str_in(T_ALREADY, str_upper(held[k][2]))

\* whether the case counts as passed
case_passes(kind, held, expected, ok_flag) ==
    CASE kind = "run_test" -> run_test_passes(held, expected)
      [] kind = "rapid" -> ok_flag
      [] kind = "params" -> params_pass(held)
      [] kind = "burst" -> burst_passes(held)

\* test_startstop_sequences(ser, delay) is called
SeqInit ==
    /\ StressIdle
    /\ WireIdle
    /\ RdIdle
    /\ MainIdle
    /\ BleIdle
    /\ sq_pc = "case"
    /\ sq_case = 0
    /\ sq_k = 0
    /\ results = <<>>
    /\ rapid_ok = TRUE
    /\ tests_passed = 0
    /\ tests_total = 0

\* the next case begins: tests_total += 1
SeqStartCase ==
    /\ sq_pc = "case"
    /\ sq_case < NCases
    /\ sq_case' = sq_case + 1
    /\ tests_total' = tests_total + 1
    /\ sq_k' = 0
    /\ results' = <<>>
    /\ rapid_ok' = TRUE
    /\ sq_pc' = "send"
    /\ UNCHANGED tests_passed
    /\ UNCHANGED <<stress_vars, wire_vars, rd_vars, m_vars, ble_vars>>

\* the cases are over: go on to the closing command
SeqClose ==
    /\ sq_pc = "case"
    /\ sq_case = NCases
    /\ sq_case' = sq_case + 1
    /\ sq_k' = 0
    /\ sq_pc' = "send"
    /\ UNCHANGED <<results, rapid_ok, tests_passed, tests_total>>
    /\ UNCHANGED <<stress_vars, wire_vars, rd_vars, m_vars, ble_vars>>

\* send_command up to the end of ser.write and ser.flush
SeqSend ==
    /\ sq_pc = "send"
    /\ cmd' = seq_commands(sq_case)[sq_k + 1]
    /\ nwrite' = nwrite + 1
    /\ sq_k' = sq_k + 1
    /\ sq_pc' = "read"
    /\ UNCHANGED <<sq_case, results, rapid_ok, tests_passed, tests_total>>
    /\ UNCHANGED <<stress_vars, resp, nread, rd_vars, m_vars, ble_vars>>

\* the same, when ser.write raises: the exception leaves test_startstop_sequences
SeqSendFault ==
    /\ sq_pc = "send"
    /\ cmd' = seq_commands(sq_case)[sq_k + 1]
    /\ sq_pc' = "aborted"
    /\ UNCHANGED <<sq_case, sq_k, results, rapid_ok, tests_passed, tests_total>>
    /\ UNCHANGED <<stress_vars, resp, nwrite, nread, rd_vars, m_vars, ble_vars>>

\* read_until_prompt returns; the case keeps the response or drops it, the
\* rapid toggle breaks on ERROR after a pass, the closing command returns
SeqRead ==
    /\ sq_pc = "read"
    /\ nread' = nread + 1
    /\ \E r \in SeqReplies :
          LET kind == seq_kind(sq_case)
              held == seq_keep(kind, results, sq_k, cmd, r)
              broke == kind = "rapid" /\ sq_k % 2 = 0 /\ rapid_failed(held)
          IN  /\ resp' = r
              /\ results' = held
              /\ rapid_ok' = IF broke THEN FALSE ELSE rapid_ok
              /\ sq_pc' = IF kind = "closing" THEN "returned"
                          ELSE IF broke \/ sq_k = Len(seq_commands(sq_case))
                          THEN "judge"
                          ELSE "send"
    /\ UNCHANGED <<sq_case, sq_k, tests_passed, tests_total>>
    /\ UNCHANGED <<stress_vars, cmd, nwrite, rd_vars, m_vars, ble_vars>>

\* the case is judged: tests_passed += 1 when it passed
SeqJudge ==
    /\ sq_pc = "judge"
    /\ tests_passed' =
          IF case_passes(seq_kind(sq_case), results, seq_cases[sq_case].expected, rapid_ok)
          THEN tests_passed + 1
          ELSE tests_passed
    /\ sq_pc' = "case"
    /\ UNCHANGED <<sq_case, sq_k, results, rapid_ok, tests_total>>
    /\ UNCHANGED <<stress_vars, wire_vars, rd_vars, m_vars, ble_vars>>

SeqNext ==
    \/ SeqStartCase
    \/ SeqClose
    \/ SeqSend
    \/ SeqSendFault
    \/ SeqRead
    \/ SeqJudge

SeqSpec == SeqInit /\ [][SeqNext]_vars

(***************************************************************************)
(* main: open the port, read the banner, run the scripted cases and the    *)
(* stress run as the arguments say, send a last SON, close the port.  A    *)
(* KeyboardInterrupt can arrive at any point after the arguments are       *)
(* parsed, between two statements or inside one; main has no handler for   *)
(* it.                                                                     *)
(***************************************************************************)
\* the stress sessions main is explored with: at most one command
MainSessions == {s \in Sessions : s.device = "terse" /\ s.iters <= 1 /\ s.burst <= 1}

\* positions of main at which it is running
MainRunning ==
    {"open", "banner", "sequence?", "sequence", "stress?", "stress", "ensure",
     "ensure read", "close"}

\* main() is called with --sequence-tests and --full-test given or not, and
\* the arguments are parsed: if args.full_test: args.sequence_tests = True
MainInit ==
    /\ StressIdle
    /\ WireIdle
    /\ RdIdle
    /\ SeqIdle
    /\ BleIdle
    /\ m_pc = "open"
    /\ full_test \in BOOLEAN
    /\ \E given \in BOOLEAN : sequence_tests = (given \/ full_test)

\* serial.Serial(...) returns, or raises and main exits with status 2
MainOpen ==
    /\ m_pc = "open"
    /\ m_pc' \in {"banner", "exit 2"}
    /\ UNCHANGED <<sequence_tests, full_test>>
    /\ UNCHANGED <<stress_vars, wire_vars, rd_vars, sq_vars, ble_vars>>

\* banner = read_until_prompt(ser, timeout=1.0)
MainBanner ==
    /\ m_pc = "banner"
    /\ nread' = nread + 1
    /\ m_pc' = "sequence?"
    /\ UNCHANGED <<sequence_tests, full_test>>
    /\ UNCHANGED <<stress_vars, cmd, resp, nwrite, rd_vars, sq_vars, ble_vars>>

\* if args.sequence_tests: call test_startstop_sequences
MainSequence ==
    /\ m_pc = "sequence?"
    /\ IF sequence_tests
       THEN m_pc' = "sequence" /\ sq_pc' = "case"
       ELSE m_pc' = "stress?" /\ sq_pc' = sq_pc
    /\ UNCHANGED <<sequence_tests, full_test>>
    /\ UNCHANGED <<sq_case, sq_k, results, rapid_ok, tests_passed, tests_total>>
    /\ UNCHANGED <<stress_vars, wire_vars, rd_vars, ble_vars>>

\* test_startstop_sequences returns seq_passed, seq_total; its other locals go
MainSequenceReturns ==
    /\ m_pc = "sequence"
    /\ sq_pc = "returned"
    /\ m_pc' = "stress?"
    /\ sq_pc' = "idle"
    /\ sq_case' = 0
    /\ sq_k' = 0
    /\ results' = <<>>
    /\ rapid_ok' = TRUE
    /\ UNCHANGED <<tests_passed, tests_total, sequence_tests, full_test>>
    /\ UNCHANGED <<stress_vars, wire_vars, rd_vars, ble_vars>>

\* if not args.sequence_tests or args.full_test: call test_sequence; under
\* --full-test args.focus_startstop has been set
MainStress ==
    /\ m_pc = "stress?"
    /\ IF ~sequence_tests \/ full_test
       THEN /\ m_pc' = "stress"
            /\ pc' = "round"
            /\ \E s \in MainSessions :
                  /\ full_test => s.focus_startstop
                  /\ iters' = s.iters
                  /\ burst' = s.burst
                  /\ malformed_pct' = s.malformed_pct
                  /\ focus_startstop' = s.focus_startstop
                  /\ rapid_toggle' = s.rapid_toggle
                  /\ device' = s.device
       ELSE /\ m_pc' = "ensure"
            /\ UNCHANGED <<config, pc>>
    /\ UNCHANGED <<i, b, base_cmd, is_malformed, stats, system_running>>
    /\ UNCHANGED <<sequence_tests, full_test>>
    /\ UNCHANGED <<wire_vars, rd_vars, sq_vars, ble_vars>>

\* test_sequence returns stats and main prints them
MainStressReturns ==
    /\ m_pc = "stress"
    /\ pc = "done"
    /\ m_pc' = "ensure"
    /\ UNCHANGED <<sequence_tests, full_test>>
    /\ UNCHANGED <<stress_vars, wire_vars, rd_vars, sq_vars, ble_vars>>

\* send_command(ser, 'SON', wait=args.delay), up to the end of the write
MainEnsure ==
    /\ m_pc = "ensure"
    /\ cmd' = CMD_START
    /\ nwrite' = nwrite + 1
    /\ m_pc' = "ensure read"
    /\ UNCHANGED <<sequence_tests, full_test>>
    /\ UNCHANGED <<stress_vars, resp, nread, rd_vars, sq_vars, ble_vars>>

\* its read_until_prompt returns
MainEnsureRead ==
    /\ m_pc = "ensure read"
    /\ \E r \in CoreReplies : resp' = r
    /\ nread' = nread + 1
    /\ m_pc' = "close"
    /\ UNCHANGED <<sequence_tests, full_test>>
    /\ UNCHANGED <<stress_vars, cmd, nwrite, rd_vars, sq_vars, ble_vars>>

\* ser.close() and the last print
MainClose ==
    /\ m_pc = "close"
    /\ m_pc' = "done"
    /\ UNCHANGED <<sequence_tests, full_test>>
    /\ UNCHANGED <<stress_vars, wire_vars, rd_vars, sq_vars, ble_vars>>

\* ser.write raises in send_command(ser, 'SON', wait=args.delay): the
\* exception leaves main
MainEnsureFault ==
    /\ m_pc = "ensure"
    /\ cmd' = CMD_START
    /\ m_pc' = "crashed"
    /\ UNCHANGED <<sequence_tests, full_test>>
    /\ UNCHANGED <<stress_vars, resp, nwrite, nread, rd_vars, sq_vars, ble_vars>>

\* a ser.write raised in a runner: the exception leaves main
MainCrash ==
    /\ \/ m_pc = "sequence" /\ sq_pc = "aborted"
       \/ m_pc = "stress" /\ pc = "aborted"
    /\ m_pc' = "crashed"
    /\ UNCHANGED <<sequence_tests, full_test>>
    /\ UNCHANGED <<stress_vars, wire_vars, rd_vars, sq_vars, ble_vars>>

\* KeyboardInterrupt between two steps: it unwinds the runner that is active
\* and main itself; nothing catches it and no statement runs on the way out
MainInterrupt ==
    /\ m_pc \in MainRunning
    /\ m_pc' = "interrupted"
    /\ sq_pc' = IF m_pc = "sequence" THEN "interrupted" ELSE sq_pc
    /\ pc' = IF m_pc = "stress" THEN "interrupted" ELSE pc
    /\ UNCHANGED <<sequence_tests, full_test>>
    /\ UNCHANGED <<config, i, b, base_cmd, is_malformed, stats, system_running>>
    /\ UNCHANGED <<sq_case, sq_k, results, rapid_ok, tests_passed, tests_total>>
    /\ UNCHANGED <<wire_vars, rd_vars, ble_vars>>

\* KeyboardInterrupt inside the statements that begin a round of
\* test_sequence: base_cmd is assigned, is_malformed is not yet, or both are
\* and the burst loop has not begun
InterruptStartRound ==
    /\ m_pc = "stress"
    /\ pc = "round"
    /\ round_continues(i, iters)
    /\ \E typ \in round_types(focus_startstop, rapid_toggle, system_running) :
          \E bc \in base_cmds(typ) : base_cmd' = bc
    /\ \E m \in {is_malformed} \cup malformed_draws(malformed_pct) : is_malformed' = m
    /\ m_pc' = "interrupted"
    /\ pc' = "interrupted"
    /\ UNCHANGED <<sequence_tests, full_test>>
    /\ UNCHANGED <<config, i, b, stats, system_running>>
    /\ UNCHANGED <<wire_vars, rd_vars, sq_vars, ble_vars>>

\* KeyboardInterrupt inside a burst element before ser.write has returned:
\* cmd is assigned, and stats['sent'] is counted or not yet
InterruptSend ==
    /\ m_pc = "stress"
    /\ pc = "send"
    /\ \E c \in burst_cmds(is_malformed, base_cmd) : cmd' = c
    /\ stats' \in {stats, Bump(stats, "sent")}
    /\ m_pc' = "interrupted"
    /\ pc' = "interrupted"
    /\ UNCHANGED <<sequence_tests, full_test>>
    /\ UNCHANGED <<config, i, b, base_cmd, is_malformed, system_running>>
    /\ UNCHANGED <<resp, nwrite, nread, rd_vars, sq_vars, ble_vars>>

\* KeyboardInterrupt when read_until_prompt has returned and its text is not
\* assigned to resp yet (inside read_until_prompt nothing has changed: that
\* is MainInterrupt)
InterruptRead ==
    /\ \/ m_pc = "stress" /\ pc = "read"
       \/ m_pc = "sequence" /\ sq_pc = "read"
       \/ m_pc = "ensure read"
    /\ nread' = nread + 1
    /\ m_pc' = "interrupted"
    /\ sq_pc' = IF m_pc = "sequence" THEN "interrupted" ELSE sq_pc
    /\ pc' = IF m_pc = "stress" THEN "interrupted" ELSE pc
    /\ UNCHANGED <<sequence_tests, full_test>>
    /\ UNCHANGED <<config, i, b, base_cmd, is_malformed, stats, system_running>>
    /\ UNCHANGED <<sq_case, sq_k, results, rapid_ok, tests_passed, tests_total>>
    /\ UNCHANGED <<cmd, resp, nwrite, rd_vars, ble_vars>>

\* stats and system_running at the statement boundaries after line 157, up
\* to the next pass of the loop: the pair is appended; the first counter of a
\* SON or SOFF is raised; every counter is raised; system_running is assigned
analyze_interrupted(st, running, c, r) ==
    LET appended == [st EXCEPT !.responses = Append(@, <<c, r>>)]
        counted == count_response(appended, c, r)
        first == [counted EXCEPT !.ok = appended.ok, !.error = appended.error]
    IN  {<<appended, running>>, <<first, running>>, <<counted, running>>,
         <<counted, track_running(running, c, r)>>}

\* KeyboardInterrupt inside the analysis of a response
InterruptAnalyze ==
    /\ m_pc = "stress"
    /\ pc = "analyze"
    /\ \E p \in analyze_interrupted(stats, system_running, cmd, resp) :
          /\ stats' = p[1]
          /\ system_running' = p[2]
    /\ m_pc' = "interrupted"
    /\ pc' = "interrupted"
    /\ UNCHANGED <<sequence_tests, full_test>>
    /\ UNCHANGED <<config, i, b, base_cmd, is_malformed>>
    /\ UNCHANGED <<wire_vars, rd_vars, sq_vars, ble_vars>>

\* KeyboardInterrupt when a scripted case has begun and tests_total is not
\* raised yet
InterruptSeqStartCase ==
    /\ m_pc = "sequence"
    /\ sq_pc = "case"
    /\ sq_case < NCases
    /\ sq_case' = sq_case + 1
    /\ sq_k' = 0
    /\ results' = <<>>
    /\ rapid_ok' = TRUE
    /\ m_pc' = "interrupted"
    /\ sq_pc' = "interrupted"
    /\ UNCHANGED <<tests_passed, tests_total, sequence_tests, full_test>>
    /\ UNCHANGED <<stress_vars, wire_vars, rd_vars, ble_vars>>

\* KeyboardInterrupt inside send_command before ser.write has returned, in a
\* scripted case or in the closing send_command(ser, 'SON') of main
InterruptSeqSend ==
    /\ \/ m_pc = "sequence" /\ sq_pc = "send"
       \/ m_pc = "ensure"
    /\ cmd' = IF m_pc = "ensure" THEN CMD_START ELSE seq_commands(sq_case)[sq_k + 1]
    /\ m_pc' = "interrupted"
    /\ sq_pc' = IF m_pc = "sequence" THEN "interrupted" ELSE sq_pc
    /\ UNCHANGED <<sq_case, sq_k, results, rapid_ok, tests_passed, tests_total>>
    /\ UNCHANGED <<sequence_tests, full_test>>
    /\ UNCHANGED <<stress_vars, resp, nwrite, nread, rd_vars, ble_vars>>

\* KeyboardInterrupt in a scripted case when the response is assigned and the
\* case has not gone on: the response is kept or not yet
InterruptSeqRead ==
    /\ m_pc = "sequence"
    /\ sq_pc = "read"
    /\ nread' = nread + 1
    /\ \E r \in SeqReplies :
          /\ resp' = r
          /\ results' \in {results, seq_keep(seq_kind(sq_case), results, sq_k, cmd, r)}
    /\ m_pc' = "interrupted"
    /\ sq_pc' = "interrupted"
    /\ UNCHANGED <<sq_case, sq_k, rapid_ok, tests_passed, tests_total>>
    /\ UNCHANGED <<sequence_tests, full_test>>
    /\ UNCHANGED <<stress_vars, cmd, nwrite, rd_vars, ble_vars>>

\* the ways a KeyboardInterrupt ends main
MainInterrupted ==
    \/ MainInterrupt
    \/ InterruptStartRound
    \/ InterruptSend
    \/ InterruptRead
    \/ InterruptAnalyze
    \/ InterruptSeqStartCase
    \/ InterruptSeqSend
    \/ InterruptSeqRead

MainNext ==
    \/ MainOpen
    \/ MainBanner
    \/ MainSequence
    \/ MainSequenceReturns
    \/ MainStress
    \/ MainStressReturns
    \/ MainEnsure
    \/ MainEnsureRead
    \/ MainClose
    \/ MainEnsureFault
    \/ MainCrash
    \/ MainInterrupted
    \/ SeqNext
    \/ Next

MainSpec == MainInit /\ [][MainNext]_vars

(***************************************************************************)
(* stress_test.py: StressTest.send_command, driven by the nine test        *)
(* methods in the order run_all_tests calls them.  send_command is a       *)
(* coroutine: it counts the command, then waits for write_gatt_char, and   *)
(* other tasks of the event loop see the state in between.                 *)
(***************************************************************************)
\* write failures explored in one run
MaxFaults == 2
\* commands of test_sustained_load explored
MaxLoad == 2

\* for i in range(20), in both rapid tests
RAPID_CHANGES == 20
\* for i in range(30)
ALTERNATIONS == 30
\* while time.time() - start_time < 60
SUSTAINED_SECONDS == 60
\* the clock of test_sustained_load is read in ticks of 0.05 s, the shortest
\* sleep of its loop
TICKS_PER_SECOND == 20
SUSTAINED_TICKS == SUSTAINED_SECONDS * TICKS_PER_SECOND

\* f"SF;{freq}", f"SW;{pw}", f"SP;{pause}"
ble_set_freq(freq) == "SF;" \o ToString(freq)
ble_set_width(pw) == "SW;" \o ToString(pw)
ble_set_pause(pause) == "SP;" \o ToString(pause)

\* test_frequency_range
ble_frequencies == <<"SF;1", "SF;5", "SF;10", "SF;25", "SF;50", "SF;75", "SF;100">>

\* test_pulse_width_range
ble_pulse_widths == <<"SW;1", "SW;5", "SW;10", "SW;20", "SW;50", "SW;100">>

\* test_edge_cases
ble_edge_cases ==
    <<"SF;1", "SF;100", "SF;150", "SF;0", "SW;1", "SW;100", "SW;150", "SW;0">>

\* test_impossible_combinations
ble_impossible == <<"SW;50", "SF;100", "SW;100", "SF;50", "SF;10", "SW;50", "SF;50">>

\* test_pause_resume
ble_pause_resume == <<"SP;1", "SF;25", "SW;10", "SP;0">>

\* the test methods in the order run_all_tests calls them
ble_tests ==
    <<"test_frequency_range", "test_pulse_width_range", "test_edge_cases",
      "test_impossible_combinations", "test_rapid_frequency_changes",
      "test_rapid_pulse_width_changes", "test_alternating_parameters",
      "test_pause_resume", "test_sustained_load">>

\* the command list of a test method that sends a fixed list
ble_script(name) ==
    CASE name = "test_frequency_range" -> ble_frequencies
      [] name = "test_pulse_width_range" -> ble_pulse_widths
      [] name = "test_edge_cases" -> ble_edge_cases
      [] name = "test_impossible_combinations" -> ble_impossible
      [] name = "test_pause_resume" -> ble_pause_resume
      [] OTHER -> <<>>

\* the test methods that send a fixed list
ble_scripted ==
    {"test_frequency_range", "test_pulse_width_range", "test_edge_cases",
     "test_impossible_combinations", "test_pause_resume"}

\* the loop of the test method goes on after k commands, `elapsed` seconds
\* after its start
ble_more(name, k, elapsed) ==
    IF name \in ble_scripted THEN k < Len(ble_script(name))
    ELSE IF name = "test_alternating_parameters" THEN k < ALTERNATIONS
    ELSE IF name = "test_sustained_load" THEN elapsed < SUSTAINED_TICKS
    ELSE k < RAPID_CHANGES

\* the commands the test method can send after k commands
ble_cmds(name, k) ==
    IF name \in ble_scripted THEN {ble_script(name)[k + 1]}
    ELSE IF name = "test_rapid_frequency_changes"
    THEN {ble_set_freq(n) : n \in randint(1, 100)}
    ELSE IF name = "test_rapid_pulse_width_changes"
    THEN {ble_set_width(n) : n \in randint(1, 100)}
    ELSE IF name = "test_alternating_parameters"
    THEN IF k % 2 = 0
         THEN {ble_set_freq(n) : n \in randint(10, 80)}
         ELSE {ble_set_width(n) : n \in randint(1, 50)}
    ELSE {ble_set_freq(n) : n \in randint(1, 100)}
         \cup {ble_set_width(n) : n \in randint(1, 100)}
         \cup {ble_set_pause(n) : n \in choice(<<0, 1>>)}

\* wait_response of the test method's calls
ble_wait_response(name) == name \in ble_scripted

\* the test method itself sleeps after its k-th command
ble_sleeps_after(name, k) ==
    IF name = "test_impossible_combinations" THEN k \in {1, 3, 5, 6}
    ELSE IF name = "test_pause_resume" THEN k \in {1, 2, 3}
    ELSE name \notin ble_scripted

\* random.uniform(0.05, 0.2), in ticks
ble_sleep_ticks == 1..4

\* how long write_gatt_char takes, in ticks; the code sets no limit, and the
\* durations explored are: less than a tick, the whole 60 seconds, half of
\* them, ...
ble_write_ticks == {0} \cup {SUSTAINED_TICKS \div n : n \in 1..MaxLoad}

\* the client is connected and notifications are enabled
BleInit ==
    /\ StressIdle
    /\ WireIdle
    /\ RdIdle
    /\ SeqIdle
    /\ MainIdle
    /\ ble_pc = "run"
    /\ ble_test = 1
    /\ ble_k = 0
    /\ ble_write = "none"
    /\ ble_elapsed = 0
    /\ command_count = 0
    /\ error_count = 0

\* the test method calls send_command: self.command_count += 1, and the
\* coroutine waits for write_gatt_char
BleSend ==
    /\ ble_pc = "run"
    /\ ble_test <= Len(ble_tests)
    /\ ble_more(ble_tests[ble_test], ble_k, ble_elapsed)
    /\ ble_tests[ble_test] = "test_sustained_load" => ble_k < MaxLoad
    /\ \E c \in ble_cmds(ble_tests[ble_test], ble_k) : cmd' = c
    /\ command_count' = command_count + 1
    /\ ble_pc' = "write"
    /\ UNCHANGED <<ble_test, ble_k, ble_write, ble_elapsed, error_count>>
    /\ UNCHANGED <<stress_vars, resp, nwrite, nread, rd_vars, sq_vars, m_vars>>

\* write_gatt_char returns; send_command sleeps TEST_DELAY when wait_response
BleWriteReturns ==
    /\ ble_pc = "write"
    /\ ble_write' = "returned"
    /\ ble_k' = ble_k + 1
    /\ ble_pc' = IF \/ ble_wait_response(ble_tests[ble_test])
                    \/ ble_sleeps_after(ble_tests[ble_test], ble_k + 1)
                 THEN "sleep" ELSE "run"
    /\ UNCHANGED <<ble_test, ble_elapsed, command_count, error_count>>
    /\ UNCHANGED <<stress_vars, wire_vars, rd_vars, sq_vars, m_vars>>

\* write_gatt_char raises: the except clause counts the error and
\* send_command returns normally
BleWriteRaises ==
    /\ ble_pc = "write"
    /\ error_count < MaxFaults
    /\ ble_write' = "raised"
    /\ error_count' = error_count + 1
    /\ ble_k' = ble_k + 1
    /\ ble_pc' = IF ble_sleeps_after(ble_tests[ble_test], ble_k + 1)
                 THEN "sleep" ELSE "run"
    /\ UNCHANGED <<ble_test, ble_elapsed, command_count>>
    /\ UNCHANGED <<stress_vars, wire_vars, rd_vars, sq_vars, m_vars>>

\* the asyncio.sleep after a write, of send_command or of the test method;
\* in test_sustained_load the clock of its loop moves on
BleSleep ==
    /\ ble_pc = "sleep"
    /\ ble_pc' = "run"
    /\ IF ble_tests[ble_test] = "test_sustained_load"
       THEN \E w \in ble_write_ticks : \E d \in ble_sleep_ticks :
                ble_elapsed' = ble_elapsed + w + d
       ELSE ble_elapsed' = ble_elapsed
    /\ UNCHANGED <<ble_test, ble_k, ble_write, command_count, error_count>>
    /\ UNCHANGED <<stress_vars, wire_vars, rd_vars, sq_vars, m_vars>>

\* a test method returns and run_all_tests, after its asyncio.sleep(1),
\* calls the next one, or prints the summary after the last
BleNextTest ==
    /\ ble_pc = "run"
    /\ ble_test <= Len(ble_tests)
    /\ ~ble_more(ble_tests[ble_test], ble_k, ble_elapsed)
    /\ ble_test' = ble_test + 1
    /\ ble_k' = 0
    /\ ble_elapsed' = 0
    /\ ble_pc' = IF ble_test = Len(ble_tests) THEN "summary" ELSE "run"
    /\ UNCHANGED <<ble_write, command_count, error_count>>
    /\ UNCHANGED <<stress_vars, wire_vars, rd_vars, sq_vars, m_vars>>

BleNext ==
    \/ BleSend
    \/ BleWriteReturns
    \/ BleWriteRaises
    \/ BleSleep
    \/ BleNextTest

BleSpec == BleInit /\ [][BleNext]_vars

(***************************************************************************)
(* Vocabulary of the properties.                                           *)
(***************************************************************************)
\* the tracked SystemState, as far as system_running can express it
SystemState == IF system_running THEN "Running" ELSE "Stopped"

ControlCmds == {"SON", "SOFF"}

\* phrase occurs in r in some letter case
ContainsNoCase(phrase, r) == str_in(str_upper(phrase), str_upper(r))

\* the reply to a control command reads as success (Ok or Already)
ControlSuccess(r) ==
    \E phrase \in {T_OK, T_STARTED, T_STOPPED, T_ALREADY} : ContainsNoCase(phrase, r)

Recorded == stats.responses

NRecorded == Len(stats.responses)

LastRecorded == stats.responses[Len(stats.responses)]

\* no reply to a SON or SOFF has been classified yet
NoControlClassified ==
    \A k \in 1..NRecorded : Recorded[k][1] \notin ControlCmds

ControlCounters == <<stats.start_ok, stats.start_err, stats.stop_ok, stats.stop_err>>

\* C1: a SON or SOFF is counted as a success (ok and start_ok / stop_ok plus
\* one, the error counters untouched) exactly when its reply contains OK,
\* STARTED, STOPPED or ALREADY in some letter case, and as an error (error
\* and start_err / stop_err plus one, the ok counters untouched) otherwise,
\* the empty reply included.
C1_ControlCounted ==
    [][(pc = "analyze" /\ cmd \in ControlCmds) =>
          LET okKey == IF cmd = "SON" THEN "start_ok" ELSE "stop_ok"
              errKey == IF cmd = "SON" THEN "start_err" ELSE "stop_err"
          IN  IF ControlSuccess(resp)
              THEN /\ stats'.ok = stats.ok + 1
                   /\ stats'[okKey] = stats[okKey] + 1
                   /\ stats'.error = stats.error
                   /\ stats'[errKey] = stats[errKey]
              ELSE /\ stats'.error = stats.error + 1
                   /\ stats'[errKey] = stats[errKey] + 1
                   /\ stats'.ok = stats.ok
                   /\ stats'[okKey] = stats[okKey]]_vars

\* a SON answered 'already' in lower case has been counted as a success
C1_Witness ==
    /\ NRecorded = 1
    /\ LastRecorded = <<"SON", R_ALREADY_LOWER>>
    /\ stats.start_ok = 1
    /\ stats.ok = 1
    /\ stats.error = 0

\* C2: right after a SON whose reply reads as success the tracked state is
\* Running, and right after such a SOFF it is Stopped, whatever it was before
\* and also when the reply was only an ALREADY reply.
C2_SuccessSetsState ==
    NRecorded > 0 =>
        /\ (LastRecorded[1] = "SON" /\ ControlSuccess(LastRecorded[2]))
              => SystemState = "Running"
        /\ (LastRecorded[1] = "SOFF" /\ ControlSuccess(LastRecorded[2]))
              => SystemState = "Stopped"

\* the state was Stopped and a SON answered only 'Already running' made it Running
C2_Witness ==
    /\ NRecorded = 2
    /\ Recorded[1] = <<"SOFF", R_OK>>
    /\ Recorded[2] = <<"SON", R_ALREADY>>
    /\ SystemState = "Running"

\* C3 as stated: before the first reply to a SON or SOFF has been classified
\* the tracked state is Unknown.
C3_UnknownUntilControl == NoControlClassified => SystemState = "Unknown"

\* C3 amended: before the first reply to a SON or SOFF has been classified
\* the tracked state is Running.
C3_RunningUntilControl == NoControlClassified => SystemState = "Running"

\* a parameter command has been processed and no control command yet
C3_Witness ==
    /\ NRecorded = 2
    /\ NoControlClassified
    /\ Recorded[1][1] = "SF;1"
    /\ pc = "done"
    /\ SystemState = "Running"

\* C4: the tracked state and start_ok, start_err, stop_ok, stop_err change
\* only in the step that classifies the reply to a command that is exactly
\* SON or SOFF; and when that reply reads as an error the tracked state stays.
C4_FrameOfControlState ==
    [][/\ ~(pc = "analyze" /\ cmd \in ControlCmds)
            => /\ system_running' = system_running
               /\ ControlCounters' = ControlCounters
       /\ (pc = "analyze" /\ cmd \in ControlCmds /\ ~ControlSuccess(resp))
            => system_running' = system_running]_vars

\* the look-alike 'soff' was answered 'stopped' and nothing of the five moved
C4_Witness ==
    /\ NRecorded = 1
    /\ LastRecorded = <<"soff", R_STOPPED>>
    /\ stats.ok = 1
    /\ SystemState = "Running"
    /\ ControlCounters = <<0, 0, 0, 0>>

\* a command other than exactly SON or SOFF is being classified
ClassifyingOther == pc = "analyze" /\ cmd \notin ControlCmds

CountedError == stats'.error = stats.error + 1 /\ stats'.ok = stats.ok

CountedOk == stats'.ok = stats.ok + 1 /\ stats'.error = stats.error

\* C5: a parameter-set or malformed command whose reply does not contain OK
\* but contains ERROR, or unknown in some letter case, is counted as an error.
C5_ErrorPhraseCounted ==
    [][(/\ ClassifyingOther
        /\ ~ContainsNoCase(T_OK, resp)
        /\ (ContainsNoCase(T_ERROR, resp) \/ ContainsNoCase(T_UNKNOWN, resp)))
          => CountedError]_vars

\* the reply holds neither a success phrase nor an error phrase
NoKnownPhrase(r) ==
    \E up \in {str_upper(r)} :
        \A phrase \in {T_OK, T_STARTED, T_STOPPED, T_ERROR, T_UNKNOWN} :
            ~str_in(phrase, up)

AllWhitespace(r) == \A k \in 1..Len(r) : r[k] \in Whitespace

\* C6 as stated: a parameter-set or malformed command whose reply holds no
\* success and no error phrase is counted as an error when the reply is
\* empty and as ok for every non-empty reply, whitespace only included.
C6_ErrorIffEmpty ==
    [][(ClassifyingOther /\ NoKnownPhrase(resp))
          => IF resp = <<>> THEN CountedError ELSE CountedOk]_vars

\* C6 amended: such a command is counted as an error when the reply is empty
\* or consists of whitespace only, and as ok for every reply with a character
\* that is not whitespace, the prompt alone included.
C6_ErrorIffBlank ==
    [][(ClassifyingOther /\ NoKnownPhrase(resp))
          => IF AllWhitespace(resp) THEN CountedError ELSE CountedOk]_vars

\* a parameter command answered with a bare line end has been counted as an error
C6_Witness ==
    /\ NRecorded = 1
    /\ LastRecorded = <<"SW;10", R_CRLF>>
    /\ stats.error = 1
    /\ stats.ok = 0

\* the round whose commands are the latest on the wire
LatestRound == IF pc \in {"round", "done"} THEN i - 1 ELSE i

\* the commands written so far in that round
RoundCmds ==
    {Recorded[k][1] :
        k \in {n \in 1..NRecorded :
                  n > LatestRound * burst /\ n <= (LatestRound + 1) * burst}}
    \cup (IF pc \in {"read", "analyze"} THEN {cmd} ELSE {})

Catalog == {malformed_examples[k] : k \in 1..Len(malformed_examples)}

\* SON, SOFF and the parameter commands with a value in range
WellFormedCmds ==
    {"SON", "SOFF"}
    \cup {CMD_SET_FREQ(n) : n \in MIN_FREQ..MAX_FREQ}
    \cup {CMD_SET_WIDTH(n) : n \in MIN_WIDTH..MAX_WIDTH}
    \cup {CMD_SET_AMP(n) : n \in MIN_AMP..MAX_AMP}

\* C7 as stated: in a round decided malformed all burst commands are one and
\* the same catalog string; in a round decided well-formed all burst commands
\* are the round's base command.
C7_OneStringPerRound ==
    /\ is_malformed => (RoundCmds \subseteq Catalog /\ Cardinality(RoundCmds) <= 1)
    /\ ~is_malformed => RoundCmds \subseteq {base_cmd}

\* C7 amended: in a round decided malformed every burst command is a catalog
\* string, drawn anew for each burst element, and none is well-formed; in a
\* round decided well-formed all burst commands are the round's base command.
C7_OneDecisionPerRound ==
    /\ is_malformed => (RoundCmds \subseteq Catalog /\ RoundCmds \cap WellFormedCmds = {})
    /\ ~is_malformed => RoundCmds \subseteq {base_cmd}

\* a malformed round of two burst commands has sent two different strings
C7_Witness ==
    /\ is_malformed
    /\ burst = 2
    /\ pc = "round"
    /\ NRecorded = 2
    /\ Recorded[1][1] = "SONN"
    /\ Recorded[2][1] = "son"

\* the run has returned or a transport fault has ended it
Ended == pc \in {"done", "aborted"}

\* the steps a run has left at most: one to start a round, three (write,
\* read, analyze) for each burst element, one to return
StepsLeft ==
    LET perRound == 1 + 3 * burst
        later == (iters - i - 1) * perRound + 3 * (burst - b)
    IN  CASE Ended -> 0
          [] pc = "round" -> (iters - i) * perRound + 1
          [] pc = "send" -> later + 1
          [] pc = "read" -> later
          [] pc = "analyze" -> later - 1

\* some step of the run is enabled (Analyze is guarded by its position alone)
CanStep ==
    \/ ENABLED StartRound
    \/ ENABLED Finish
    \/ ENABLED Send
    \/ ENABLED Read
    \/ pc = "analyze"

\* C8: a run of test_sequence ends (a run that has not ended can take a step,
\* and every step lowers the number of steps left, which is never negative),
\* and when it ends without a transport fault it has written iters * burst
\* commands, with one write, one read and one recorded pair for each,
\* whatever the replies were.
C8_RunsToCompletion ==
    /\ [](/\ StepsLeft >= 0
          /\ Ended \/ CanStep
          /\ pc = "done" =>
                /\ stats.sent = iters * burst
                /\ nwrite = iters * burst
                /\ nread = iters * burst
                /\ NRecorded = iters * burst)
    /\ [][StepsLeft' < StepsLeft]_vars

\* a run of two rounds ended after an empty reply and an ERROR reply
C8_Witness ==
    /\ pc = "done"
    /\ iters = 2
    /\ burst = 1
    /\ nwrite = 2
    /\ Recorded[1][2] = R_EMPTY
    /\ Recorded[2][2] = R_ERROR
    /\ stats.error = 2

\* round r holds a SON or SOFF whose reply reads as success
RoundToggled(r) ==
    \E k \in (r * burst + 1)..((r + 1) * burst) :
        /\ k <= NRecorded
        /\ Recorded[k][1] \in ControlCmds
        /\ ControlSuccess(Recorded[k][2])

AtRoundBoundary == pc \in {"round", "done"}

\* C9 as stated: in rapid-toggle mode (with at least one command a round) the
\* tracked state after N rounds is the starting state (Running) when N is
\* even and the opposite when N is odd.
C9_ParityOfRounds ==
    (rapid_toggle /\ burst > 0 /\ AtRoundBoundary) =>
        SystemState = (IF i % 2 = 0 THEN "Running" ELSE "Stopped")

\* C9 amended: in rapid-toggle mode, after N rounds each of which holds at
\* least one SON or SOFF whose reply reads as success, the tracked state is
\* the starting state (Running) when N is even and the opposite when N is odd.
C9_ParityOfToggledRounds ==
    (rapid_toggle /\ AtRoundBoundary /\ \A r \in 0..(i - 1) : RoundToggled(r)) =>
        SystemState = (IF i % 2 = 0 THEN "Running" ELSE "Stopped")

\* three toggled rounds have left the tracked state Stopped
C9_Witness ==
    /\ rapid_toggle
    /\ pc = "done"
    /\ i = 3
    /\ \A r \in 0..2 : RoundToggled(r)
    /\ SystemState = "Stopped"

\* C10: when a SOFF whose reply read as success is followed by another SOFF,
\* the tracked state after the second is Stopped whatever its reply is, and
\* the second is counted as a success whenever its reply contains OK or ALREADY.
C10_SecondStopKeepsStopped ==
    [][(/\ pc = "analyze"
        /\ cmd = "SOFF"
        /\ NRecorded > 0
        /\ LastRecorded[1] = "SOFF"
        /\ ControlSuccess(LastRecorded[2]))
          => /\ SystemState' = "Stopped"
             /\ (ContainsNoCase(T_OK, resp) \/ ContainsNoCase(T_ALREADY, resp))
                   => /\ stats'.stop_ok = stats.stop_ok + 1
                      /\ CountedOk]_vars

\* a second SOFF got no reply after a first that succeeded: still Stopped
C10_Witness ==
    /\ NRecorded = 2
    /\ Recorded[1] = <<"SOFF", R_OK>>
    /\ Recorded[2] = <<"SOFF", R_EMPTY>>
    /\ stats.stop_ok = 1
    /\ stats.stop_err = 1
    /\ SystemState = "Stopped"

\* text is the chunks laid end to end
RECURSIVE IsConcat(_, _)
IsConcat(text, chunks) ==
    IF chunks = <<>> THEN text = <<>>
    ELSE /\ Len(text) >= Len(Head(chunks))
         /\ SubSeq(text, 1, Len(Head(chunks))) = Head(chunks)
         /\ IsConcat(SubSeq(text, Len(Head(chunks)) + 1, Len(text)), Tail(chunks))

\* some chunk read so far holds the prompt
PromptSeen == \E k \in 1..Len(rd_resp) : str_in(<<PROMPT>>, rd_resp[k])

\* the steps read_until_prompt has left at most: one pass for each tick up to
\* the deadline, and the return
RdStepsLeft ==
    CASE rd_pc = "call" -> rd_timeout + 2
      [] rd_pc = "loop" -> (IF rd_end > rd_now THEN rd_end - rd_now ELSE 0) + 1
      [] rd_pc = "break" -> 1
      [] OTHER -> 0

RdCanStep == ENABLED RdCall \/ ENABLED RdIterate \/ ENABLED RdReturn

\* C11: read_until_prompt ends (a call that has not returned can take a step,
\* every step lowers the number of steps left, which is never negative); no
\* ser.read is started once the clock has reached the deadline, time of call
\* plus timeout; what is returned is what was accumulated, the empty text
\* when no bytes arrived; and a return without a prompt comes at the deadline
\* or after it, by less than one pass of the loop.
C11_BoundedWait ==
    /\ [](/\ RdStepsLeft >= 0
          /\ rd_pc = "returned" \/ RdCanStep
          /\ rd_pc \in {"loop", "break", "returned"} => rd_end - rd_timeout \in 0..1
          /\ rd_pc = "returned" =>
                /\ IsConcat(rd_ret, rd_resp)
                /\ rd_resp = <<>> => rd_ret = <<>>
                /\ ~PromptSeen => (rd_now >= rd_end /\ rd_now < rd_end + MaxTick)
                /\ rd_reads <= rd_timeout)
    /\ [][/\ RdStepsLeft' < RdStepsLeft
          /\ rd_reads' # rd_reads => rd_now < rd_end]_vars

\* text without a prompt arrived at every read until the deadline passed
C11_Witness ==
    /\ rd_pc = "returned"
    /\ rd_timeout = 2
    /\ rd_reads = 2
    /\ rd_resp = <<B_TEXT, B_TEXT>>
    /\ rd_ret = <<"O", "K", "O", "K">>
    /\ rd_now = rd_end

\* C12: a write that raises is fatal: the run is aborted by it, the failure
\* is not counted, and no further command is written.
C12_WriteFaultFatal ==
    /\ [](ble_write = "raised" => (ble_pc = "aborted" /\ error_count = 0))
    /\ [][ble_pc = "aborted" => command_count' = command_count]_vars

\* the serial send_command: after a ser.write that raised nothing more happens
SerialWriteFaultFatal == [][pc = "aborted" => UNCHANGED vars]_vars

(***************************************************************************)
(* The scripted cases.                                                     *)
(***************************************************************************)
\* the case being judged
Judging(name) ==
    /\ sq_pc = "judge"
    /\ seq_cases[sq_case].name = name

\* the judged case is counted as passed, or is not
CountedPassed(passed) ==
    tests_passed' = IF passed THEN tests_passed + 1 ELSE tests_passed

\* the k-th response held, upper-cased, contains the k-th expected pattern
PairMatches(k) ==
    str_in(seq_cases[sq_case].expected[k], str_upper(results[k][2]))

\* every command of the case that has an expected pattern got a matching response
AllPairsMatch ==
    \A k \in 1..Len(seq_cases[sq_case].commands) :
        k <= Len(seq_cases[sq_case].expected) => PairMatches(k)

\* C13: a case run by run_test is counted as passed exactly when, for every
\* command of the case paired with an expected pattern, the upper-cased
\* response contains the pattern; tests_total goes up by one when a case
\* begins and at no other step, whatever the outcome.
C13_RunTestVerdict ==
    /\ [](tests_total = (IF sq_case <= NCases THEN sq_case ELSE NCases))
    /\ [][/\ (sq_pc = "judge" /\ seq_kind(sq_case) = "run_test")
               => /\ CountedPassed(AllPairsMatch)
                  /\ Len(results) = Len(seq_cases[sq_case].commands)
          /\ tests_total' # tests_total
               => (tests_total' = tests_total + 1 /\ sq_case' = sq_case + 1)]_vars

\* "Basic SOFF" passed on 'stopped' and "Double SOFF" on 'OK', 'Already running'
C13_Witness ==
    /\ sq_pc = "case"
    /\ sq_case = 2
    /\ results = <<<<"SOFF", R_OK>>, <<"SOFF", R_ALREADY>>>>
    /\ tests_total = 2
    /\ tests_passed = 2

\* C14: in every scripted case all commands of the case are sent, in order,
\* also after a response that fails the case; no case is skipped.
C14_AllCommandsSent ==
    /\ [](/\ sq_pc = "judge" => sq_k = Len(seq_commands(sq_case))
          /\ sq_pc = "returned" => tests_total = NCases)
    /\ [][nwrite' # nwrite => cmd' = seq_commands(sq_case)[sq_k + 1]]_vars

\* the steps from the end of case c to the return
RECURSIVE SeqRemaining(_)
SeqRemaining(c) ==
    IF c > NCases THEN 0
    ELSE IF c = NCases THEN 3
    ELSE 2 + 2 * Len(seq_cases[c + 1].commands) + SeqRemaining(c + 1)

\* the steps the sequence runner has left at most
SeqStepsLeft ==
    LET unsent == Len(seq_commands(sq_case)) - sq_k
        verdict == IF sq_case <= NCases THEN 1 ELSE 0
    IN  CASE sq_pc = "case" -> SeqRemaining(sq_case)
          [] sq_pc = "send" -> SeqRemaining(sq_case) + 2 * unsent + verdict
          [] sq_pc = "read" -> SeqRemaining(sq_case) + 2 * unsent + 1 + verdict
          [] sq_pc = "judge" -> SeqRemaining(sq_case) + 1
          [] OTHER -> 0

\* some step of the sequence runner is enabled (reading and judging are
\* guarded by their position alone)
SeqCanStep ==
    \/ ENABLED SeqStartCase
    \/ ENABLED SeqClose
    \/ ENABLED SeqSend
    \/ sq_pc \in {"read", "judge"}

\* C15: a call of the sequence runner ends (a call that has not ended can
\* take a step and every step lowers the number of steps left), and when it
\* returns, the last command written is SON, the one command sent after the
\* eighth case, whatever the cases' outcomes.
C15_ClosesWithStart ==
    /\ [](/\ SeqStepsLeft >= 0
          /\ sq_pc \in {"returned", "aborted"} \/ SeqCanStep
          /\ sq_pc = "returned" =>
                /\ cmd = "SON"
                /\ sq_case = NCases + 1
                /\ sq_k = 1
                /\ tests_total = NCases)
    /\ [][/\ SeqStepsLeft' < SeqStepsLeft
          /\ (sq_case' > NCases /\ nwrite' # nwrite) => (cmd' = "SON" /\ sq_k = 0)]_vars

\* every case failed and the runner still closed with SON
C15_Witness ==
    /\ sq_pc = "returned"
    /\ tests_passed = 0
    /\ tests_total = 8
    /\ cmd = "SON"
    /\ resp = R_EMPTY

\* C17 as stated: "Double SOFF" passes exactly when the first reply contains
\* STOPPED or OK and the second contains ALREADY, in some letter case.
C17_StoppedOrOkThenAlready ==
    [][Judging("Double SOFF") =>
          CountedPassed(/\ \/ ContainsNoCase(T_STOPPED, results[1][2])
                           \/ ContainsNoCase(T_OK, results[1][2])
                        /\ ContainsNoCase(T_ALREADY, results[2][2]))]_vars

\* C17 amended: "Double SOFF" passes exactly when the first reply contains OK
\* and the second contains ALREADY, in some letter case.
C17_OkThenAlready ==
    [][Judging("Double SOFF") =>
          CountedPassed(/\ ContainsNoCase(T_OK, results[1][2])
                        /\ ContainsNoCase(T_ALREADY, results[2][2]))]_vars

\* 'stopped' then 'Already running': "Double SOFF" failed, after "Basic SOFF" passed
C17_Witness ==
    /\ sq_pc = "case"
    /\ sq_case = 2
    /\ results = <<<<"SOFF", R_STOPPED>>, <<"SOFF", R_ALREADY>>>>
    /\ tests_total = 2
    /\ tests_passed = 1

\* the reply would be counted ok for a parameter command by the stress
\* runner: it contains OK, or is not empty and holds no error phrase
PermissiveOk(r) ==
    \/ ContainsNoCase(T_OK, r)
    \/ /\ r # <<>>
       /\ ~ContainsNoCase(T_ERROR, r)
       /\ ~ContainsNoCase(T_UNKNOWN, r)

\* C18 as stated: "Parameter change while stopped" passes exactly when each
\* of the replies to SF;5, SW;3 and SA;10 would be counted ok by the stress
\* runner's permissive rule.
C18_ParamsPermissive ==
    [][Judging("Parameter change while stopped") =>
          CountedPassed(\A k \in 1..3 : PermissiveOk(results[k][2]))]_vars

\* C18 amended: it passes exactly when each of the replies to SF;5, SW;3 and
\* SA;10 contains OK in some letter case; the replies to the SOFF before and
\* the SON after are not held and have no part in it.
C18_ParamsContainOk ==
    [][Judging("Parameter change while stopped") =>
          /\ CountedPassed(\A k \in 1..3 : ContainsNoCase(T_OK, results[k][2]))
          /\ Len(results) = 3
          /\ \A k \in 1..3 : results[k][1] = seq_commands(sq_case)[k + 1]]_vars

\* the three parameter replies were OK, the SON after them got ERROR, and the
\* case is the only one that passed
C18_Witness ==
    /\ sq_pc = "case"
    /\ sq_case = 7
    /\ results = <<<<"SF;5", R_OK>>, <<"SW;3", R_OK>>, <<"SA;10", R_OK>>>>
    /\ resp = R_ERROR
    /\ tests_total = 7
    /\ tests_passed = 1

\* main is in the middle of the scripted cases (a case has begun, the last
\* has not ended) or of the stress run (inside a round)
InRunner ==
    \/ m_pc = "sequence" /\ sq_case \in 1..NCases /\ sq_pc \in {"send", "read", "judge"}
    \/ m_pc = "stress" /\ pc \in {"send", "read", "analyze"}

\* C16: when a KeyboardInterrupt ends main in the middle of the scripted
\* cases or of the stress run, main sends SON once more before it has
\* unwound: the step that takes main from the runner to its end is a write
\* of SON that returned.
C16_InterruptStillStarts ==
    [][(InRunner /\ m_pc' = "interrupted")
          => (cmd' = CMD_START /\ nwrite' = nwrite + 1)]_vars

\* the commands the device documents as legal
LegalCmds ==
    {"SON", "SOFF"}
    \cup {"SF;" \o ToString(n) : n \in 1..59}
    \cup {"SW;" \o ToString(n) : n \in 1..10}
    \cup {"SA;" \o ToString(n) : n \in 1..30}

\* every command written so far, the one in flight included
WrittenCmds ==
    {Recorded[k][1] : k \in 1..NRecorded}
    \cup (IF pc \in {"read", "analyze"} THEN {cmd} ELSE {})

\* C19: every command sent in a round not decided malformed is SON, SOFF,
\* SF;n with 1 <= n <= 59, SW;n with 1 <= n <= 10 or SA;n with 1 <= n <= 30;
\* with malformed_pct = 0 every command of the session is, none is a catalog
\* string, in every mode.
C19_WellFormedInRange ==
    /\ ~is_malformed => RoundCmds \subseteq LegalCmds
    /\ base_cmd \in LegalCmds \cup {Unset}
    /\ malformed_pct = 0 =>
          (WrittenCmds \subseteq LegalCmds /\ WrittenCmds \cap Catalog = {})

\* a mixed-mode session without malformed rounds has sent, in a burst of two,
\* an amplitude command with a value from inside the range
C19_Witness ==
    /\ malformed_pct = 0
    /\ ~focus_startstop
    /\ ~rapid_toggle
    /\ pc = "done"
    /\ NRecorded = 2
    /\ Recorded[1][1] = "SA;19"
    /\ Recorded[2][1] = "SA;19"

\* a round is about to begin in rapid-toggle mode
RapidRoundBegins == pc = "round" /\ rapid_toggle /\ round_continues(i, iters)

\* the command that leaves the tracked state
TogglingCmd == IF SystemState = "Running" THEN "SOFF" ELSE "SON"

\* C20 as stated: in rapid-toggle mode the base command of a round is SOFF
\* when the tracked state is Running at its start and SON otherwise; and
\* when the latest control response before the round was classified as an
\* error, the base command is the same as in the round before.
C20_SameAfterAnyError ==
    [][RapidRoundBegins =>
          /\ base_cmd' = TogglingCmd
          /\ (/\ NRecorded > 0
              /\ LastRecorded[1] \in ControlCmds
              /\ ~ControlSuccess(LastRecorded[2]))
                => base_cmd' = base_cmd]_vars

\* C20 amended: the base command of a round is SOFF when the tracked state
\* is Running at its start and SON otherwise; it is the same as in the round
\* before exactly when no control response of that round was classified as
\* success, and the other one of the two when one was.
C20_SameAfterFailedRound ==
    [][RapidRoundBegins =>
          /\ base_cmd' = TogglingCmd
          /\ i > 0 => (base_cmd' = base_cmd <=> ~RoundToggled(i - 1))
          /\ i > 0 => base_cmd \in ControlCmds]_vars

\* a burst of two SOFF got OK, then ERROR: the next round goes on to SON
C20_Witness ==
    /\ rapid_toggle
    /\ burst = 2
    /\ i = 1
    /\ pc = "send"
    /\ Recorded = <<<<"SOFF", R_OK>>, <<"SOFF", R_ERROR>>>>
    /\ base_cmd = "SON"
    /\ SystemState = "Stopped"

\* the place of the first prompt in text, 0 when there is none
FirstPrompt(text) ==
    IF \E k \in 1..Len(text) : text[k] = PROMPT
    THEN CHOOSE k \in 1..Len(text) :
            /\ text[k] = PROMPT
            /\ \A j \in 1..(k - 1) : text[j] # PROMPT
    ELSE 0

\* s is the beginning of t
IsPrefix(s, t) == Len(s) <= Len(t) /\ SubSeq(t, 1, Len(s)) = s

\* C21: read_until_prompt stops at the first chunk that holds the prompt:
\* once a chunk with the prompt has been read the loop is left, the prompt is
\* in the last chunk and in no earlier one, so the first prompt of the
\* returned text lies in its last chunk; from then on no ser.read is started,
\* nothing is added to the chunks and nothing is taken from the port: what
\* the device emits afterwards is added to the bytes waiting there.
C21_StopsAtFirstPrompt ==
    /\ [](/\ PromptSeen =>
                /\ rd_pc \in {"break", "returned"}
                /\ prompt_in(rd_resp[Len(rd_resp)])
                /\ \A k \in 1..(Len(rd_resp) - 1) : ~prompt_in(rd_resp[k])
          /\ (rd_pc = "returned" /\ PromptSeen) =>
                /\ FirstPrompt(rd_ret) > Len(rd_ret) - Len(rd_resp[Len(rd_resp)])
                /\ FirstPrompt(rd_ret) <= Len(rd_ret))
    /\ [][PromptSeen =>
             /\ rd_reads' = rd_reads
             /\ rd_resp' = rd_resp
             /\ IsPrefix(rd_waiting, rd_waiting')
             /\ rd_waiting' \o bytes_of(rd_line') = rd_waiting \o bytes_of(rd_line)]_vars

\* the reply came in two reads, the second with the prompt; the OK the device
\* emitted after it waits in the port
C21_Witness ==
    /\ rd_pc = "returned"
    /\ rd_reads = 2
    /\ rd_resp = <<B_TEXT, B_PROMPT_LINE>>
    /\ rd_ret = <<"O", "K", "\r", "\n", ">">>
    /\ rd_waiting = B_TEXT
    /\ rd_line = <<>>
    /\ rd_now < rd_end

\* no command is between its count in `sent` and its classification
CommandsProcessed == pc \in {"round", "send", "done"}

\* the recorded commands that are exactly SON or SOFF
ControlRecorded == {k \in 1..NRecorded : Recorded[k][1] \in ControlCmds}

\* C22: whenever every command counted in `sent` has been processed, sent is
\* ok + error and is the number of recorded pairs, start_ok + stop_ok is at
\* most ok, start_err + stop_err is at most error, and the four start/stop
\* counters add up to the number of commands that were exactly SON or SOFF;
\* and processing a command adds one pair and raises exactly one of ok and
\* error, by exactly one.
C22_CountersAddUp ==
    /\ [](CommandsProcessed =>
             /\ stats.sent = stats.ok + stats.error
             /\ stats.sent = NRecorded
             /\ stats.start_ok + stats.stop_ok <= stats.ok
             /\ stats.start_err + stats.stop_err <= stats.error
             /\ stats.start_ok + stats.start_err + stats.stop_ok + stats.stop_err
                   = Cardinality(ControlRecorded))
    /\ [][pc = "analyze" =>
             /\ Len(stats'.responses) = NRecorded + 1
             /\ \/ stats'.ok = stats.ok + 1 /\ stats'.error = stats.error
                \/ stats'.ok = stats.ok /\ stats'.error = stats.error + 1]_vars

\* a burst of two SON in a drawn round: the first succeeded, the second failed
C22_Witness ==
    /\ ~rapid_toggle
    /\ pc = "done"
    /\ NRecorded = 2
    /\ Recorded[1] = <<"SON", R_OK>>
    /\ Recorded[2] = <<"SON", R_EMPTY>>
    /\ stats.sent = 2
    /\ stats.ok = 1
    /\ stats.error = 1
    /\ ControlCounters = <<1, 1, 0, 0>>

\* read_until_prompt calls started by send_command
NCalls == Len(dev_log)

\* writes and reads alternate: a command is written only when every earlier
\* command has had its one read_until_prompt call, and that call has
\* returned; a call is started only for a command just written.
WritesAndReadsAlternate ==
    /\ [](/\ nread <= nwrite
          /\ nwrite <= nread + 1
          /\ NCalls <= nwrite
          /\ nread <= NCalls
          /\ NCalls <= nread + 1)
    /\ [][/\ nwrite' # nwrite => (nwrite' = nwrite + 1 /\ nread = nwrite /\ NCalls = nwrite)
          /\ nread' # nread => (nread' = nread + 1 /\ nread' = nwrite /\ NCalls = nwrite)
          /\ NCalls' # NCalls => (NCalls' = NCalls + 1 /\ NCalls' = nwrite)]_vars

\* the k-th recorded pair is the k-th command with the device's reply to it
PairedWithOwnReply(k) == Recorded[k] = <<dev_log[k].cmd, dev_log[k].reply>>

\* the replies to the first k commands had each reached the port in full when
\* the read_until_prompt call of its command returned
ArrivedInWindow(k) == \A j \in 1..k : dev_log[j].arrived

\* the replies to the first k commands had each been taken from the port in
\* full when the read_until_prompt call of its command returned
TakenInWindow(k) == \A j \in 1..k : dev_log[j].taken

\* C23 as stated: writes and reads alternate, and when every reply so far has
\* reached the port in full within the read_until_prompt call of its own
\* command, each recorded pair holds the command and exactly the reply to it.
C23_PairedWhenArrived ==
    /\ WritesAndReadsAlternate
    /\ [](\A k \in 1..NRecorded : ArrivedInWindow(k) => PairedWithOwnReply(k))

\* C23 amended: writes and reads alternate, and when every reply so far has
\* been taken from the port in full by the ser.read calls of its own
\* command's read_until_prompt, each recorded pair holds the command and
\* exactly the reply to it.  (A reply whose last bytes reach the port after
\* the final ser.read of that call stays in the port, though it arrived before
\* the call returned, and heads the next command's response.)
C23_PairedWhenTaken ==
    /\ [](/\ nread <= nwrite
          /\ nwrite <= nread + 1
          /\ nread <= NCalls
          /\ NCalls <= nwrite)
    /\ [][/\ nwrite' # nwrite => (nread = nwrite /\ NCalls = nwrite)
          /\ nread' # nread => nread' = nwrite
          /\ NCalls' # NCalls => NCalls' = nwrite]_vars
    /\ [](\A k \in 1..NRecorded : TakenInWindow(k) => PairedWithOwnReply(k))

\* two commands, each recorded with the reply the device gave to it
C23_Witness ==
    /\ pc = "done"
    /\ nwrite = 2
    /\ nread = 2
    /\ NRecorded = 2
    /\ TakenInWindow(2)
    /\ dev_log[1].reply = R_OK
    /\ dev_log[2].reply = R_ERROR
    /\ Recorded[1] = <<"SOFF", R_OK>>
    /\ Recorded[2] = <<"SON", R_ERROR>>
    /\ rd_waiting = <<>>
    /\ rd_line = <<>>
====
